---- MODULE Spec2Model ----
(***************************************************************************)
(* submod: shifting the time encoding of .srt/.vtt subtitle files.         *)
(*                                                                         *)
(* The module models                                                       *)
(*   - helpers.rs: smart_name (default output name with the cumulative     *)
(*     shift tag), get_paths (input/output/backup paths), is_srt_or_vtt;   *)
(*   - main.rs: the order of get_paths, transform and the two reports;     *)
(*   - the shift of the cues done by submod::transform.                    *)
(*                                                                         *)
(* A file name is a sequence of one-character strings, so that the two     *)
(* regular expressions of smart_name and its byte slicing are computed on  *)
(* the characters.  An f64 is either finite, held as an integer counting   *)
(* hundredths (the resolution "{:.2}" prints), or inf, -inf or NaN, which  *)
(* str::parse::<f64> accepts as <SECONDS>.  Values between two hundredths  *)
(* and the negative zero are left out.  Cue times are integers counting    *)
(* milliseconds.                                                           *)
(***************************************************************************)
EXTENDS Integers, Sequences, FiniteSets, TLC

VARIABLES
    names,      \* SpecNamer: file names, names[1] the first input, then each run's output
    offs,       \* SpecNamer: offs[i] = seconds (in 1/100 s) of run i
    bnds,       \* SpecNamer: bnds[i] = <<start given, stop given>> of run i
    call,       \* SpecPaths: the arguments of the last get_paths call
    ret,        \* SpecPaths: what that call returned
    pc,         \* SpecMain: where main stands
    args,       \* SpecMain: the validated command line
    doc,        \* SpecMain: the cues of the input file
    mpaths,     \* SpecMain: what get_paths returned to main
    tr,         \* SpecMain: what transform returned to main
    outdoc,     \* SpecMain: the cues written to the output file
    written,    \* SpecMain: whether the output file was written
    reports     \* SpecMain: the calls of report_error / report_success, in order

namerVars == <<names, offs, bnds>>
pathVars == <<call, ret>>
mainVars == <<pc, args, doc, mpaths, tr, outdoc, written, reports>>
vars == <<names, offs, bnds, call, ret, pc, args, doc, mpaths, tr, outdoc, written, reports>>

-----------------------------------------------------------------------------
(* Characters and sequences of characters *)

Digits == <<"0", "1", "2", "3", "4", "5", "6", "7", "8", "9">>

IsDigit(c) == \E k \in 1..10 : Digits[k] = c

DigitVal(c) == (CHOOSE k \in 1..10 : Digits[k] = c) - 1

IsSign(c) == c \in {"+", "-"}

\* s[i..j], empty when j < i
Slice(s, i, j) == IF j < i THEN <<>> ELSE SubSeq(s, i, j)

\* does the literal lit occur in s at position i?
HasAt(s, i, lit) ==
    /\ i >= 1
    /\ i + Len(lit) - 1 <= Len(s)
    /\ \A k \in 1..Len(lit) : s[i + k - 1] = lit[k]

\* str::ends_with
EndsWith(s, lit) == HasAt(s, Len(s) - Len(lit) + 1, lit)

\* last index of the maximal run of digits of s that starts at i (i-1: no digit at i)
RECURSIVE DigitsEnd(_, _)
DigitsEnd(s, i) ==
    IF i <= Len(s) /\ IsDigit(s[i]) THEN DigitsEnd(s, i + 1) ELSE i - 1

\* the decimal digits of a natural number
RECURSIVE NatToChars(_)
NatToChars(n) ==
    IF n < 10 THEN <<Digits[n + 1]>>
    ELSE NatToChars(n \div 10) \o <<Digits[(n % 10) + 1]>>

\* the value of a sequence of digits
RECURSIVE CharsToNat(_)
CharsToNat(ds) ==
    IF ds = <<>> THEN 0
    ELSE 10 * CharsToNat(SubSeq(ds, 1, Len(ds) - 1)) + DigitVal(ds[Len(ds)])

Abs(n) == IF n < 0 THEN -n ELSE n

-----------------------------------------------------------------------------
(* The regular expressions of smart_name *)

\* [+-]\d+\.\d+ anchored at i: the index of the last character matched, 0 if none.
\* \d+ is greedy; giving digits back never helps, since what follows a shorter
\* run is a digit, neither '.' nor the end of the pattern.
NumEndAt(s, i) ==
    IF i < 1 \/ i > Len(s) \/ ~IsSign(s[i]) THEN 0
    ELSE LET e1 == DigitsEnd(s, i + 1) IN
         IF e1 < i + 1 \/ e1 + 1 > Len(s) \/ s[e1 + 1] # "." THEN 0
         ELSE LET e2 == DigitsEnd(s, e1 + 2) IN
              IF e2 < e1 + 2 THEN 0 ELSE e2

\* __\[[+-]\d+\.\d+_Sec[+-]\] anchored at i: index of the closing ']', 0 if none
TagEndAt(s, i) ==
    IF ~HasAt(s, i, <<"_", "_", "[">>) THEN 0
    ELSE LET e == NumEndAt(s, i + 3) IN
         IF e = 0 THEN 0
         ELSE IF /\ HasAt(s, e + 1, <<"_", "S", "e", "c">>)
                 /\ e + 6 <= Len(s)
                 /\ IsSign(s[e + 5])
                 /\ s[e + 6] = "]"
              THEN e + 6 ELSE 0

\* the first position from i on where the tag expression matches, 0 if none
RECURSIVE TagFindFrom(_, _)
TagFindFrom(s, i) ==
    IF i > Len(s) THEN 0
    ELSE IF TagEndAt(s, i) > 0 THEN i
    ELSE TagFindFrom(s, i + 1)

\* Regex::find / is_match with the tag expression: start of the leftmost
\* match, 0 if there is none
TagFind(s) == TagFindFrom(s, 1)

RECURSIVE NumFindFrom(_, _)
NumFindFrom(s, i) ==
    IF i > Len(s) THEN 0
    ELSE IF NumEndAt(s, i) > 0 THEN i
    ELSE NumFindFrom(s, i + 1)

\* Regex::captures(..).get(0) with [+-]\d+\.\d+: start of the leftmost match
NumFind(s) == NumFindFrom(s, 1)

\* the successive non-overlapping matches of the tag expression from position i on
RECURSIVE TagCountFrom(_, _)
TagCountFrom(s, i) ==
    IF i > Len(s) THEN 0
    ELSE IF TagEndAt(s, i) > 0 THEN 1 + TagCountFrom(s, TagEndAt(s, i) + 1)
    ELSE TagCountFrom(s, i + 1)

TagCount(s) == TagCountFrom(s, 1)

-----------------------------------------------------------------------------
(* f64 and its text *)

Fin(c) == [cls |-> "finite", c |-> c]
Inf == [cls |-> "inf", c |-> 0]
NegInf == [cls |-> "-inf", c |-> 0]
NaN == [cls |-> "NaN", c |-> 0]

\* a + b
f64_add(a, b) ==
    IF a.cls = "finite" /\ b.cls = "finite" THEN Fin(a.c + b.c)
    ELSE IF a.cls = "NaN" \/ b.cls = "NaN" THEN NaN
    ELSE IF a.cls = "finite" THEN b
    ELSE IF b.cls = "finite" THEN a
    ELSE IF a.cls = b.cls THEN a
    ELSE NaN

\* a >= 0.0
f64_ge_zero(a) ==
    \/ a.cls = "finite" /\ a.c >= 0
    \/ a.cls = "inf"

\* str::parse::<f64> of a match of [+-]\d+\.\d+, in hundredths.  Exact for at
\* most two digits after the point, which is all the file names below hold.
ParseF64(num) ==
    LET dot  == CHOOSE k \in 1..Len(num) : num[k] = "."
        ip   == CharsToNat(Slice(num, 2, dot - 1))
        fr   == Slice(num, dot + 1, Len(num))
        d1   == DigitVal(fr[1])
        d2   == IF Len(fr) >= 2 THEN DigitVal(fr[2]) ELSE 0
        mag  == 100 * ip + 10 * d1 + d2
    IN  Fin(IF num[1] = "-" THEN -mag ELSE mag)

\* format!("{:.2}", incr): a '-' for a negative value, never a '+'
FormatFixed2(incr) ==
    IF incr.cls = "inf" THEN <<"i", "n", "f">>
    ELSE IF incr.cls = "-inf" THEN <<"-", "i", "n", "f">>
    ELSE IF incr.cls = "NaN" THEN <<"N", "a", "N">>
    ELSE LET a == Abs(incr.c) IN
         (IF incr.c < 0 THEN <<"-">> ELSE <<>>)
             \o NatToChars(a \div 100)
             \o <<".">>
             \o <<Digits[((a \div 10) % 10) + 1], Digits[(a % 10) + 1]>>

-----------------------------------------------------------------------------
(* helpers.rs: smart_name *)

\* what a function hands back: a value, or the panic of an unwrap or a slice
Ok(v) == [kind |-> "ok", val |-> v]
Panic == [kind |-> "panic", val |-> <<>>]

\* '-' indicates that only part of the file was modified
partial_marker(partial) == IF partial THEN "-" ELSE "+"

\* the increment read back from the file name: the leftmost match of
\* [+-]\d+\.\d+ in the whole file name, parsed as a float
prev_incr(filename) ==
    LET i == NumFind(filename) IN ParseF64(Slice(filename, i, NumEndAt(filename, i)))

\* &filename[..tag_start]
tag_stem(filename) == Slice(filename, 1, TagFind(filename) - 1)

\* the two format! calls: an explicit '+' when incr >= 0
format_output(stem, incr, marker, extension) ==
    stem \o <<"_", "_", "[">>
         \o (IF f64_ge_zero(incr) THEN <<"+">> ELSE <<>>) \o FormatFixed2(incr)
         \o <<"_", "S", "e", "c", marker, "]">>
         \o extension

smart_name(filename, seconds, partial) ==
    LET len       == Len(filename)
        processed == TagFind(filename) > 0
        extension == Slice(filename, len - 3, len)
        incr      == IF processed THEN f64_add(prev_incr(filename), seconds) ELSE seconds
        stem      == IF processed THEN tag_stem(filename) ELSE Slice(filename, 1, len - 4)
    IN  IF len < 4 THEN Panic   \* len-4 underflows / slice out of range
        ELSE Ok(format_output(stem, incr, partial_marker(partial), extension))

\* the validator of <INPUT> and --output
is_srt_or_vtt(input) ==
    EndsWith(input, <<".", "s", "r", "t">>) \/ EndsWith(input, <<".", "v", "t", "t">>)

-----------------------------------------------------------------------------
(* std::path::Path, as helpers.rs uses it.  A path is held by its components *)
(* (Path's equality compares components): root says whether it starts at     *)
(* '/', list holds the other components in order.                            *)

\* the segments of s between '/' characters
RECURSIVE SplitSlash(_)
SplitSlash(s) ==
    IF \E k \in 1..Len(s) : s[k] = "/"
    THEN LET k == CHOOSE k \in 1..Len(s) : s[k] = "/" /\ \A j \in 1..(k - 1) : s[j] # "/"
         IN  <<Slice(s, 1, k - 1)>> \o SplitSlash(Slice(s, k + 1, Len(s)))
    ELSE <<s>>

CurDir == <<".">>
ParentDir == <<".", ".">>

\* Path::new(s).components(): empty segments vanish, and so does '.' unless it
\* leads a relative path
PathNew(s) ==
    LET segs == SplitSlash(s)
        root == s # <<>> /\ s[1] = "/"
        keep == {k \in 1..Len(segs) :
                    /\ segs[k] # <<>>
                    /\ (segs[k] = CurDir => (k = 1 /\ ~root))}
        RECURSIVE Pick(_)
        Pick(k) == IF k > Len(segs) THEN <<>>
                   ELSE (IF k \in keep THEN <<segs[k]>> ELSE <<>>) \o Pick(k + 1)
    IN  [root |-> root, list |-> Pick(1)]

NoPath == [some |-> FALSE, val |-> [root |-> FALSE, list |-> <<>>]]
SomePath(p) == [some |-> TRUE, val |-> p]
NoStr == [some |-> FALSE, val |-> <<>>]
SomeStr(s) == [some |-> TRUE, val |-> s]

\* Path::parent: the path without its last component; None for "" and "/"
parent(p) ==
    IF p.list = <<>> THEN NoPath
    ELSE SomePath([root |-> p.root, list |-> SubSeq(p.list, 1, Len(p.list) - 1)])

\* Path::file_name: the last component when it is a normal one
file_name(p) ==
    IF p.list = <<>> THEN NoStr
    ELSE LET l == p.list[Len(p.list)] IN
         IF l = CurDir \/ l = ParentDir THEN NoStr ELSE SomeStr(l)

\* Path::join with a relative one-component path
join(p, file) == [root |-> p.root, list |-> Append(p.list, file)]

\* index of the last '.' of s, 0 if there is none
LastDot(s) ==
    IF \E k \in 1..Len(s) : s[k] = "."
    THEN CHOOSE k \in 1..Len(s) : s[k] = "." /\ \A j \in (k + 1)..Len(s) : s[j] # "."
    ELSE 0

\* Path::file_stem: the file name up to its last '.'; the whole file name when
\* it has no '.' or only a leading one
file_stem(p) ==
    LET f == file_name(p) IN
    IF ~f.some THEN NoStr
    ELSE IF LastDot(f.val) <= 1 THEN f
    ELSE SomeStr(Slice(f.val, 1, LastDot(f.val) - 1))

\* Path::extension: what follows the last '.', None when file_stem is the
\* whole file name
extension(p) ==
    LET f == file_name(p) IN
    IF ~f.some THEN NoStr
    ELSE IF LastDot(f.val) <= 1 THEN NoStr
    ELSE SomeStr(Slice(f.val, LastDot(f.val) + 1, Len(f.val)))

-----------------------------------------------------------------------------
(* helpers.rs: get_paths *)

\* the three results of get_paths: Ok((input, output, backup)), Err(message),
\* or the panic of one of its unwraps
PathsOk(i, o, b) == [kind |-> "ok", input |-> i, output |-> o, backup |-> b, err |-> ""]
PathsErr(msg) ==
    [kind |-> "err", input |-> NoPath.val, output |-> NoPath.val, backup |-> NoPath, err |-> msg]
PathsPanic ==
    [kind |-> "panic", input |-> NoPath.val, output |-> NoPath.val, backup |-> NoPath, err |-> ""]

\* output_file.rsplitn(2, '.').nth(1).unwrap() + "." + to_ext
change_extension(output_file, to_ext) ==
    IF LastDot(output_file) = 0 THEN Panic
    ELSE Ok(Slice(output_file, 1, LastDot(output_file) - 1) \o <<".">> \o to_ext)

\* faulty variant: the backup name is not joined to the input's parent directory
original_path_no_parent(input_path) ==
    LET st == file_stem(input_path)
        ex == extension(input_path)
    IN  IF ~st.some \/ ~ex.some THEN Panic
        ELSE Ok(join([root |-> FALSE, list |-> <<>>],
                     st.val \o <<"_", "_", "[", "O", "r", "i", "g", "i", "n", "a", "l", "]", ".">>
                            \o ex.val))

\* <file stem>__[Original].<extension> of the input, beside the input
original_path(input_path) ==
    LET st == file_stem(input_path)
        ex == extension(input_path)
    IN  IF ~st.some \/ ~ex.some THEN Panic
        ELSE Ok(join(parent(input_path).val,
                     st.val \o <<"_", "_", "[", "O", "r", "i", "g", "i", "n", "a", "l", "]", ".">>
                            \o ex.val))

\* faulty variant: unwrap() in place of ok_or(..)?: a missing parent or file name panics
input_parts_unwrap(input_path) ==
    IF ~parent(input_path).some \/ ~file_name(input_path).some
    THEN [kind |-> "panic", err |-> "", parent |-> NoPath.val, file |-> <<>>]
    ELSE [kind |-> "ok", err |-> "", parent |-> parent(input_path).val,
          file |-> file_name(input_path).val]

\* parent and file name of the input, or the error of the first one missing
input_parts(input_path) ==
    IF ~parent(input_path).some
    THEN [kind |-> "err", err |-> "incorrect path", parent |-> NoPath.val, file |-> <<>>]
    ELSE IF ~file_name(input_path).some
    THEN [kind |-> "err", err |-> "invalid file name", parent |-> NoPath.val, file |-> <<>>]
    ELSE [kind |-> "ok", err |-> "", parent |-> parent(input_path).val,
          file |-> file_name(input_path).val]

\* the part of get_paths after the early return for an explicit output
derived_paths(input_path, seconds, partial, convert_opt, copy_opt) ==
    LET parts == input_parts(input_path) IN
    IF parts.kind = "err" THEN PathsErr(parts.err)
    ELSE IF parts.kind = "panic" THEN PathsPanic
    ELSE
      LET converted == IF convert_opt.some
                       THEN change_extension(parts.file, convert_opt.val)
                       ELSE Ok(parts.file)
          named     == IF converted.kind = "ok"
                       THEN smart_name(converted.val, seconds, partial)
                       ELSE Panic
          original  == IF copy_opt THEN original_path(input_path) ELSE Panic
      IN  IF named.kind # "ok" THEN PathsPanic
          ELSE IF copy_opt /\ original.kind # "ok" THEN PathsPanic
          ELSE PathsOk(input_path,
                       join(parts.parent, named.val),
                       IF copy_opt THEN SomePath(original.val) ELSE NoPath)

get_paths(input, seconds, partial, output_opt, convert_opt, copy_opt) ==
    LET input_path == PathNew(input) IN
    IF output_opt.some
    THEN PathsOk(input_path, PathNew(output_opt.val), NoPath)
    ELSE derived_paths(input_path, seconds, partial, convert_opt, copy_opt)

-----------------------------------------------------------------------------
(* The inputs the specifications draw from *)

MaxRuns == 2    \* runs of the tool on its own output, SpecNamer

\* <SECONDS>: -1.5, -0.5, 0, 1.5 and inf
Offsets == { Fin(-150), Fin(-50), Fin(0), Fin(150), Inf }

\* <SECONDS> of SpecPaths
PathOffsets == { Fin(-50), Fin(0), Fin(150), Inf, NegInf, NaN }

Srt == <<".", "s", "r", "t">>
Vtt == <<".", "v", "t", "t">>
Movie == <<"m", "o", "v", "i", "e">>
\* a stem that holds a signed decimal of its own: ep-1.5
EpStem == <<"e", "p", "-", "1", ".", "5">>
\* __[+1.5_Sec-], a tag that was not printed by "{:.2}"
OldTag == <<"_", "_", "[", "+", "1", ".", "5", "_", "S", "e", "c", "-", "]">>
\* __[-2.00_Sec+]
NegTag == <<"_", "_", "[", "-", "2", ".", "0", "0", "_", "S", "e", "c", "+", "]">>

Stems ==
    { Movie,                            \* movie
      EpStem,                           \* ep-1.5
      <<"a", "_">>,                     \* a_
      <<>>,                             \* (nothing before the extension)
      <<"m">> \o OldTag \o <<"x">>,     \* m__[+1.5_Sec-]x
      <<"m">> \o NegTag \o OldTag }     \* m__[-2.00_Sec+]__[+1.5_Sec-]

\* file names the validator is_srt_or_vtt accepts
InputNames == { st \o ex : st \in Stems, ex \in {Srt, Vtt} }

\* the arguments of get_paths
PathStrings ==
    { <<>>,                                         \* ""
      <<"/">>,                                      \* "/"
      <<".", ".">>,                                 \* ".."
      <<"d", "/", ".", ".">>,                       \* "d/.."
      <<"m">>,                                      \* "m" (not validated)
      Movie \o Srt,                                 \* movie.srt
      <<"d", "/">> \o Movie \o Vtt,                 \* d/movie.vtt
      <<"/", "d", "/", "/">> \o EpStem \o Srt,      \* /d//ep-1.5.srt
      Srt,                                          \* .srt
      <<"m">> \o NegTag \o Srt,                     \* m__[-2.00_Sec+].srt
      <<"d", "/", "m">> \o NegTag \o Vtt }          \* d/m__[-2.00_Sec+].vtt

OutputOpts == { NoStr, SomeStr(<<"o">> \o Srt), SomeStr(<<"d", "/">> \o Movie \o Vtt) }
ConvertOpts == { NoStr, SomeStr(<<"s", "r", "t">>), SomeStr(<<"v", "t", "t">>) }

Calls ==
    [ input : PathStrings, seconds : PathOffsets, partial : BOOLEAN,
      output_opt : OutputOpts, convert_opt : ConvertOpts, copy_opt : BOOLEAN ]

NoCall ==
    [ input |-> <<>>, seconds |-> Fin(0), partial |-> FALSE,
      output_opt |-> NoStr, convert_opt |-> NoStr, copy_opt |-> FALSE ]

PathsPending ==
    [kind |-> "pending", input |-> NoPath.val, output |-> NoPath.val, backup |-> NoPath, err |-> ""]

NoSecs == [some |-> FALSE, val |-> 0]
SomeSecs(t) == [some |-> TRUE, val |-> t]

NoArgs ==
    [ input |-> <<>>, seconds |-> 0, start_opt |-> NoSecs, stop_opt |-> NoSecs,
      output |-> NoStr, convert_opt |-> NoStr ]

NoTransform == [kind |-> "none", deleted |-> 0]

\* the variables of SpecMain in the specifications that do not run main
MainIdle ==
    /\ pc = "idle"
    /\ args = NoArgs
    /\ doc = <<>>
    /\ mpaths = PathsPending
    /\ tr = NoTransform
    /\ outdoc = <<>>
    /\ written = FALSE
    /\ reports = <<>>

-----------------------------------------------------------------------------
(* SpecNamer: the tool run again and again on its own default-named output *)

\* faulty variant: partial is set by --start alone
main_partial_start_only(start_given, stop_given) == start_given

\* main.rs: partial is set when --start or --stop is given
main_partial(start_given, stop_given) == start_given \/ stop_given

Last(s) == s[Len(s)]

InitNamer ==
    /\ names \in { <<f>> : f \in InputNames }
    /\ offs = <<>>
    /\ bnds = <<>>
    /\ call = NoCall
    /\ ret = PathsPending
    /\ MainIdle

\* one run of main without --output, --srt, --vtt: get_paths names the output
\* file, which is the input of the next run
RunDefault(seconds, start_given, stop_given) ==
    LET r == get_paths(Last(names), seconds, main_partial(start_given, stop_given),
                       NoStr, NoStr, FALSE)
    IN  /\ Len(offs) < MaxRuns
        /\ r.kind = "ok"
        /\ names' = Append(names, Last(r.output.list))
        /\ offs' = Append(offs, seconds)
        /\ bnds' = Append(bnds, <<start_given, stop_given>>)
        /\ UNCHANGED <<pathVars, mainVars>>

NextNamer == \E x \in Offsets, sg \in BOOLEAN, tg \in BOOLEAN : RunDefault(x, sg, tg)

SpecNamer == InitNamer /\ [][NextNamer]_vars

-----------------------------------------------------------------------------
(* SpecPaths: one call of get_paths with any arguments *)

InitPaths ==
    /\ call \in Calls
    /\ ret = PathsPending
    /\ names = <<>>
    /\ offs = <<>>
    /\ bnds = <<>>
    /\ MainIdle

GetPaths ==
    /\ ret.kind = "pending"
    /\ ret' = get_paths(call.input, call.seconds, call.partial,
                        call.output_opt, call.convert_opt, call.copy_opt)
    /\ UNCHANGED <<call, namerVars, mainVars>>

NextPaths == GetPaths

SpecPaths == InitPaths /\ [][NextPaths]_vars

-----------------------------------------------------------------------------
(* submod::transform: the shift of the cues.  Times are in milliseconds.    *)

\* a cue takes part in the shift when its start lies in the window; a missing
\* bound leaves that side open
Eligible(cue, start_opt, stop_opt) ==
    /\ start_opt.some => cue.start >= start_opt.val
    /\ stop_opt.some => cue.start <= stop_opt.val

\* an eligible cue whose shifted end lies before 0 is removed
IsDeleted(cue, delta_ms, start_opt, stop_opt) ==
    Eligible(cue, start_opt, stop_opt) /\ cue.end + delta_ms < 0

\* faulty variant: the shifted start is not clamped to 0
ShiftCueNoClamp(cue, delta_ms) ==
    [cue EXCEPT !.start = @ + delta_ms, !.end = @ + delta_ms]

\* both times move by delta_ms; a start that falls before 0 becomes 0
ShiftCue(cue, delta_ms) ==
    [cue EXCEPT !.start = IF @ + delta_ms < 0 THEN 0 ELSE @ + delta_ms,
                !.end = @ + delta_ms]

\* the cues that stay, in file order: eligible ones shifted, the others as read
RECURSIVE ShiftCues(_, _, _, _)
ShiftCues(cues, delta_ms, start_opt, stop_opt) ==
    IF cues = <<>> THEN <<>>
    ELSE LET c    == Head(cues)
             rest == ShiftCues(Tail(cues), delta_ms, start_opt, stop_opt)
         IN  IF ~Eligible(c, start_opt, stop_opt) THEN <<c>> \o rest
             ELSE IF IsDeleted(c, delta_ms, start_opt, stop_opt) THEN rest
             ELSE <<ShiftCue(c, delta_ms)>> \o rest

\* faulty variant: the cues keep the numbers they had in the input
RenumberKeepsIndex(cues) == cues

\* the cues that stay are numbered 1..N
Renumber(cues) == [j \in 1..Len(cues) |-> [cues[j] EXCEPT !.index = j]]

\* what transform writes and the count it returns
shift_document(cues, delta_ms, start_opt, stop_opt) ==
    LET kept == ShiftCues(cues, delta_ms, start_opt, stop_opt) IN
    [cues |-> Renumber(kept), deleted |-> Len(cues) - Len(kept)]

\* <SECONDS> in hundredths of a second, as milliseconds
delta_of(seconds) == 10 * seconds

-----------------------------------------------------------------------------
(* SpecMain: one run of main, from the validated command line on *)

MaxCues == 2    \* cues of the input file

\* <SECONDS> of SpecMain, finite, in hundredths: -3 s, -1 s, 0 s, +1.5 s
MainSeconds == {-300, -100, 0, 150}

\* --start / --stop, in milliseconds
WindowTimes == {500, 1000}
WindowOpts == {NoSecs} \cup {SomeSecs(t) : t \in WindowTimes}

\* the cues an input file is made of; the numbers in the file are not 1..N
CueKinds ==
    { [index |-> 7, start |-> 500,  end |-> 2000, text |-> "A"],
      [index |-> 7, start |-> 0,    end |-> 900,  text |-> "B"],
      [index |-> 7, start |-> 1000, end |-> 3000, text |-> "C"] }

Docs == UNION { [1..n -> CueKinds] : n \in 0..MaxCues }

\* command lines that clap accepts: <INPUT> and --output end in .srt or .vtt,
\* --output excludes --srt and --vtt
MainArgs ==
    { a \in [ input : { Movie \o Srt, <<"d", "/", "m">> \o NegTag \o Vtt },
              seconds : MainSeconds,
              start_opt : WindowOpts,
              stop_opt : WindowOpts,
              output : { NoStr, SomeStr(<<"o">> \o Srt) },
              convert_opt : { NoStr, SomeStr(<<"v", "t", "t">>) } ] :
        /\ is_srt_or_vtt(a.input)
        /\ a.output.some => (is_srt_or_vtt(a.output.val) /\ ~a.convert_opt.some) }

InitMain ==
    /\ pc = "get_paths"
    /\ args \in MainArgs
    /\ doc \in Docs
    /\ mpaths = PathsPending
    /\ tr = NoTransform
    /\ outdoc = <<>>
    /\ written = FALSE
    /\ reports = <<>>
    /\ names = <<>>
    /\ offs = <<>>
    /\ bnds = <<>>
    /\ call = NoCall
    /\ ret = PathsPending

\* let ... = match helpers::get_paths(..): an error is reported and main returns
MainGetPaths ==
    LET r == get_paths(args.input, Fin(args.seconds),
                       main_partial(args.start_opt.some, args.stop_opt.some),
                       args.output, args.convert_opt, FALSE)
    IN  /\ pc = "get_paths"
        /\ mpaths' = r
        /\ IF r.kind = "ok"
           THEN pc' = "transform" /\ reports' = reports
           ELSE IF r.kind = "err"
           THEN pc' = "done" /\ reports' = Append(reports, [fn |-> "report_error", deleted |-> 0])
           ELSE pc' = "panicked" /\ reports' = reports
        /\ UNCHANGED <<args, doc, tr, outdoc, written, namerVars, pathVars>>

\* submod::transform returns Ok(num): the output file is written
MainTransformOk ==
    LET res == shift_document(doc, delta_of(args.seconds), args.start_opt, args.stop_opt)
    IN  /\ pc = "transform"
        /\ tr' = [kind |-> "ok", deleted |-> res.deleted]
        /\ outdoc' = res.cues
        /\ written' = TRUE
        /\ pc' = "report_success"
        /\ UNCHANGED <<args, doc, mpaths, reports, namerVars, pathVars>>

\* faulty variant: the Err arm of transform's match does not return
MainTransformErrNoReturn ==
    /\ pc = "transform"
    /\ tr' = [kind |-> "err", deleted |-> 0]
    /\ reports' = Append(reports, [fn |-> "report_error", deleted |-> 0])
    /\ pc' = "report_success"
    /\ UNCHANGED <<args, doc, mpaths, outdoc, written, namerVars, pathVars>>

\* submod::transform returns Err: the error is reported and main returns
MainTransformErr ==
    /\ pc = "transform"
    /\ tr' = [kind |-> "err", deleted |-> 0]
    /\ reports' = Append(reports, [fn |-> "report_error", deleted |-> 0])
    /\ pc' = "done"
    /\ UNCHANGED <<args, doc, mpaths, outdoc, written, namerVars, pathVars>>

\* helpers::report_success(deleted_subs, &output_path)
MainReportSuccess ==
    /\ pc = "report_success"
    /\ reports' = Append(reports, [fn |-> "report_success", deleted |-> tr.deleted])
    /\ pc' = "done"
    /\ UNCHANGED <<args, doc, mpaths, tr, outdoc, written, namerVars, pathVars>>

NextMain ==
    \/ MainGetPaths
    \/ MainTransformOk
    \/ MainTransformErr
    \/ MainReportSuccess

SpecMain == InitMain /\ [][NextMain]_vars

-----------------------------------------------------------------------------
(* Properties of the default output name (SpecNamer) *)

Runs == 1..Len(offs)

IsPartial(i) == bnds[i][1] \/ bnds[i][2]

\* the signed value written in the leftmost tag of a tagged file name
TagValue(s) ==
    LET t == TagFind(s) IN ParseF64(Slice(s, t + 3, NumEndAt(s, t + 3)))

\* the last four characters
ExtOf(s) == Slice(s, Len(s) - 3, Len(s))

\* C1: naming twice, with offsets x then y and the same partial flag, gives
\* the file name that naming once with x+y gives, whatever the first name.
C1_IdempotentNaming ==
    \A i \in Runs :
        (/\ i + 1 \in Runs
         /\ IsPartial(i) = IsPartial(i + 1)
         /\ offs[i].cls = "finite"
         /\ offs[i + 1].cls = "finite")
            => names[i + 2] =
                  smart_name(names[i], f64_add(offs[i], offs[i + 1]), IsPartial(i)).val

\* C2: after one or more default-named runs the file name holds exactly one
\* tag: the first run creates it, a later run replaces it.
C2_ExactlyOneTag ==
    \A i \in Runs : TagCount(names[i + 1]) = 1

\* C3: for a tagged input the new tag's value is the value written in the old
\* tag plus the new offset, whatever else the stem holds; the old tag is
\* dropped and the new one stands immediately before the extension.
C3_PreviousValueFromTag ==
    \A i \in Runs :
        TagFind(names[i]) > 0
            => names[i + 1] =
                  format_output(Slice(names[i], 1, TagFind(names[i]) - 1),
                                f64_add(TagValue(names[i]), offs[i]),
                                IF IsPartial(i) THEN "-" ELSE "+",
                                ExtOf(names[i]))

\* C4: the marker of the new tag is '-' exactly when --start or --stop was
\* given in this run, whatever the marker of the old tag; and the other flag
\* value changes the marker character of the name and nothing else.
C4_MarkerOfThisRun ==
    \A i \in Runs :
        LET out == names[i + 1]
            m   == Len(out) - 5
            alt == smart_name(names[i], offs[i], ~main_partial(bnds[i][1], bnds[i][2])).val
        IN  /\ out[m] = (IF bnds[i][1] \/ bnds[i][2] THEN "-" ELSE "+")
            /\ Len(alt) = Len(out)
            /\ \A k \in 1..Len(out) : (k # m) => alt[k] = out[k]
            /\ alt[m] = (IF bnds[i][1] \/ bnds[i][2] THEN "+" ELSE "-")

\* a full run after a partial one, and a partial run (by --stop alone) after a full one
C4_Witness ==
    /\ Len(offs) = 2
    /\ bnds[1] = <<FALSE, TRUE>>
    /\ bnds[2] = <<FALSE, FALSE>>
    /\ names[2][Len(names[2]) - 5] = "-"
    /\ names[3][Len(names[3]) - 5] = "+"

-----------------------------------------------------------------------------
(* Properties of get_paths (SpecPaths) *)

Returned == ret.kind # "pending"

\* the components of the input, read off the argument
InputComps == PathNew(call.input).list

\* the input has no parent or no file name: it is empty or "/", or it ends in
\* "." or ".."
Unresolvable ==
    \/ InputComps = <<>>
    \/ InputComps[Len(InputComps)] \in {CurDir, ParentDir}

\* <parent>/<stem>__[Original].<extension> for an input whose file name is
\* <stem>.<extension>
ExpectedBackup ==
    LET f == IF InputComps = <<>> THEN <<>> ELSE InputComps[Len(InputComps)]
        d == LastDot(f)
    IN  [root |-> PathNew(call.input).root,
         list |-> Slice(InputComps, 1, Len(InputComps) - 1)
                  \o << Slice(f, 1, d - 1)
                        \o <<"_", "_", "[", "O", "r", "i", "g", "i", "n", "a", "l", "]", ".">>
                        \o Slice(f, d + 1, Len(f)) >>]

\* C5: without an explicit output path, the output path derived for a valid
\* input differs from the input path.
C5_OutputDiffersFromInput ==
    (ret.kind = "ok" /\ ~call.output_opt.some /\ is_srt_or_vtt(call.input))
        => ret.output # ret.input

\* C6 as stated: whenever preserve-original is requested, with or without an
\* explicit output path, the triple carries the backup path; it carries none
\* when preserve-original is not requested.
C6_BackupWheneverRequested ==
    ret.kind = "ok"
        => IF call.copy_opt
           THEN ret.backup = SomePath(ExpectedBackup)
           ELSE ~ret.backup.some

\* C6 amended: the triple carries the backup path when preserve-original is
\* requested and no explicit output path is given; it carries none when
\* preserve-original is not requested or an explicit output path is given.
C6_BackupWithoutExplicitOutput ==
    ret.kind = "ok"
        => IF call.copy_opt /\ ~call.output_opt.some
           THEN ret.backup = SomePath(ExpectedBackup)
           ELSE ~ret.backup.some

C6_Witness ==
    /\ ret.kind = "ok"
    /\ call.copy_opt
    /\ ~call.output_opt.some
    /\ call.convert_opt.some
    /\ Len(InputComps) > 1
    /\ ret.backup.some
    /\ ret.backup.val # ret.output

\* C7 as stated: an input without parent or file name gives an error and no
\* paths, whatever the other options are.
C7_ErrorWhateverTheOptions ==
    (Returned /\ Unresolvable) => ret = PathsErr(ret.err) /\ ret.err # ""

\* C7 amended: without an explicit output path, an input without parent or
\* file name gives an error and no paths, whatever the target extension and
\* preserve-original are; with an explicit output path the input is not
\* examined and the call returns Ok with that output path.
C7_ErrorWithoutExplicitOutput ==
    (Returned /\ Unresolvable)
        => IF call.output_opt.some
           THEN ret = PathsOk(PathNew(call.input), PathNew(call.output_opt.val), NoPath)
           ELSE ret = PathsErr(ret.err) /\ ret.err \in {"incorrect path", "invalid file name"}

C7_Witness ==
    /\ ret.kind = "err"
    /\ Unresolvable
    /\ call.copy_opt
    /\ call.convert_opt.some
    /\ ~call.output_opt.some

-----------------------------------------------------------------------------
(* Properties of the shift and of main (SpecMain) *)

Delta == 10 * args.seconds

\* the start of cue k of the input lies in the window of the command line
InWindow(k) ==
    /\ args.start_opt.some => doc[k].start >= args.start_opt.val
    /\ args.stop_opt.some => doc[k].start <= args.stop_opt.val

\* the input cues shifted entirely before 0
Removed == {k \in 1..Len(doc) : InWindow(k) /\ doc[k].end + Delta < 0}

Kept == (1..Len(doc)) \ Removed

\* the place of input cue k among the cues that stay
Rank(k) == Cardinality({i \in Kept : i <= k})

Clamped(k) == doc[k].start + Delta < 0 /\ doc[k].end + Delta >= 0

\* C8: an eligible cue is removed iff its shifted end is < 0; one with
\* shifted start < 0 <= shifted end stays with start 0 and end + delta; any
\* other stays with both times + delta; the count returned (and reported) is
\* the number of removed cues, and no shifted cue has a negative time.
C8_DeletionBoundary ==
    tr.kind = "ok" =>
        /\ Len(outdoc) = Len(doc) - Cardinality(Removed)
        /\ tr.deleted = Cardinality(Removed)
        /\ \A k \in Kept :
              InWindow(k) =>
                 /\ outdoc[Rank(k)].text = doc[k].text
                 /\ outdoc[Rank(k)].end = doc[k].end + Delta
                 /\ outdoc[Rank(k)].start =
                        (IF Clamped(k) THEN 0 ELSE doc[k].start + Delta)
                 /\ outdoc[Rank(k)].start >= 0
                 /\ outdoc[Rank(k)].end >= 0
        /\ \A i \in 1..Len(reports) :
              reports[i].fn = "report_success" => reports[i].deleted = Cardinality(Removed)

\* a run that removes one cue and clamps another, reported
C8_Witness ==
    /\ pc = "done"
    /\ tr.kind = "ok"
    /\ Removed # {}
    /\ \E k \in Kept : InWindow(k) /\ Clamped(k) /\ outdoc[Rank(k)].start = 0
    /\ tr.deleted > 0

\* C9: with a window, a cue whose start lies outside it is in the output with
\* start, end and text as read, and is neither removed nor counted; the cues
\* that stay keep their order and are numbered 1..N.
C9_OutsideWindowUntouched ==
    tr.kind = "ok" =>
        /\ \A k \in 1..Len(doc) :
              ~InWindow(k) =>
                 /\ Rank(k) \in 1..Len(outdoc)
                 /\ outdoc[Rank(k)].start = doc[k].start
                 /\ outdoc[Rank(k)].end = doc[k].end
                 /\ outdoc[Rank(k)].text = doc[k].text
        /\ tr.deleted = Cardinality({k \in 1..Len(doc) : InWindow(k)})
                            - Cardinality({k \in Kept : InWindow(k)})
        /\ Len(outdoc) = Cardinality(Kept)
        /\ \A k \in Kept : outdoc[Rank(k)].text = doc[k].text
        /\ \A j \in 1..Len(outdoc) : outdoc[j].index = j

\* a cue outside the window that the shift would have removed, after a removed one
C9_Witness ==
    /\ tr.kind = "ok"
    /\ args.start_opt.some \/ args.stop_opt.some
    /\ \E k \in 1..Len(doc) :
          /\ ~InWindow(k)
          /\ doc[k].end + Delta < 0
          /\ \E i \in Removed : i < k
          /\ outdoc[Rank(k)].index = 1
          /\ outdoc[Rank(k)].end = doc[k].end

Reported(f) == \E i \in 1..Len(reports) : reports[i].fn = f

====
